---- MODULE Spec2Model ----
(***************************************************************************)
(* cillow: the broker's client registry (ClientManager), its request queue *)
(* and front-end (Server.run) and its dispatcher threads (RequestWorker),  *)
(* with the interpreter processes they drive (_InterpreterProcess).        *)
(***************************************************************************)
EXTENDS Integers, Sequences, FiniteSets, TLC

VARIABLES
    cfg,        \* the Server / ClientManager constructor arguments and the host's CPU count
    clients,    \* ClientManager._clients: client id -> ClientInfo
    procs,      \* the _InterpreterProcess objects: handle -> status, environment, pipes
    queue,      \* Server._request_queue: (client_id, request) items
    pc,         \* RequestWorker.run: each dispatcher thread's position ("done": back at
                \* the top of the loop after an item)
    req,        \* the item a dispatcher thread dequeued last
    frames,     \* the frames a dispatcher thread has sent for that item
    denv,       \* _modify_interpreter: the default environment read from get_info
    held,       \* _install_requirements / _run_code: the handle being drained
    received,   \* the number of messages the front-end has received
    lastRecv,   \* Server.run: what the last receive iteration did
    call,       \* the last direct call of a ClientManager method and its outcome
    emitted,    \* what the worker process has put on its output pipe for the item a
                \* dispatcher thread is draining (the _completed sentinel left out)
    server,     \* Server.run: the front-end's position
    stop_event, \* Server._server_event, shared with the dispatcher threads
    child,      \* one _InterpreterProcess per handle, stop() taken step by step
    sw,         \* a Switchable, the attribute of its parent it patches, and the
                \* values that attribute had just before each open switch_to
    limits,     \* the limits and sizes ClientManager.__init__ and Server.__init__
                \* derived from cfg, once they have run
    dealer      \* a Client: its DEALER socket's incoming messages, the request it is
                \* in, and what the broker has still to send it

vars == <<cfg, clients, procs, queue, pc, req, frames, denv, held, received, lastRecv, call,
          emitted, server, stop_event, child, sw, limits, dealer>>

----------------------------------------------------------------------------
(* Bounds of the model *)

\* The front-end receives at most this many messages in a run.
MaxRequests == 2

\* ... and at most this many in a run of one client's pipelined
\* ModifyInterpreter and Disconnect requests.
MaxPipelined == 3

\* ... and at most this many in a run of one client's RunCode requests and
\* the requests that tear its worker down.
MaxTeardown == 2

\* The numbers of Stream frames a request emits before its last frame.
StreamCounts == {0, 1}

ClientIds == {"a", "b"}

\* Environment values as they arrive in a request: the sentinel, two valid
\* environment directories, a second spelling of one of them, the empty
\* string and a directory without lib/site-packages.
RawEnvs == {"$system", "/env1", "/env1/", "/env2", "", "/bad"}

\* The directories that contain lib/site-packages.
EnvDirs == {"/env1", "/env2"}

\* The working directory of the broker (what Path("").resolve() gives).
Cwd == "/srv"

Threads == {1, 2}

Pids == 1 .. 5

\* An argument left at its default.
None == -1

\* A Client sends at most this many requests in a run.
MaxSent == 3

\* switch_to contexts are nested at most this deep.
MaxDepth == 3

\* _send_input is called directly at most this many times in a run.
MaxCalls == 2

\* The hosts have up to this many CPUs.
MaxCpu == 4

\* max_interpreters and interpreters_per_client are configured up to this.
MaxConfigured == 5

\* The callables a Switchable is created for and switched to.
Callables == {"orig", "f", "g", "h"}

\* The hosts and constructor arguments the model is run with: one client
\* with up to two interpreters and two dispatcher threads; two clients with
\* one interpreter each (max_interpreters clamped to the CPU count) and one
\* dispatcher thread; and interpreters_per_client above max_interpreters
\* with the thread count and the queue size derived.
Configs ==
    { [cpu_count |-> 4, max_interpreters |-> 2, interpreters_per_client |-> None,
       num_worker_threads |-> 2, max_queue_size |-> 1],
      [cpu_count |-> 2, max_interpreters |-> 4, interpreters_per_client |-> 1,
       num_worker_threads |-> 1, max_queue_size |-> 2],
      [cpu_count |-> 4, max_interpreters |-> 1, interpreters_per_client |-> 2,
       num_worker_threads |-> None, max_queue_size |-> None] }

----------------------------------------------------------------------------
(* Values *)

Min(a, b) == IF a < b THEN a ELSE b

NoExc == [type |-> "none", text |-> "", arg |-> ""]

Exc(type, text, arg) == [type |-> type, text |-> text, arg |-> arg]

ClientLimitExc == Exc("Exception", "Client limit exceeded. Try again later.", "")

ProcessLimitExc ==
    Exc("Exception", "Unable to create new interpreter due to process limit.", "")

LookupExc(path) ==
    Exc("LookupError", "Python environment %r is invalid or not found.", path)

ClientNotFoundExc(cid) == Exc("ValueError", "Client %r not found.", cid)

\* get_info(...) returned None and .default_environment was read from it.
NoneAttrExc ==
    Exc("AttributeError", "'NoneType' object has no attribute 'default_environment'", "")

\* A read from the output pipe of a stopped (closed) interpreter process.
ClosedQueueExc == Exc("ValueError", "Queue %r is closed", "")

\* stop() on an _InterpreterProcess that was stopped before: is_alive() of
\* the closed Process object.
ClosedProcessExc == Exc("ValueError", "process object is closed", "")

----------------------------------------------------------------------------
(* ClientManager.__init__: the derived limits *)

\* x or default
Or(x, default) == IF x = None \/ x = 0 THEN default ELSE x

max_interpreters == Min(Or(cfg.max_interpreters, cfg.cpu_count), cfg.cpu_count)

interpreters_per_client == Or(cfg.interpreters_per_client, Min(2, max_interpreters))

\* (mutant) the division rounds up
max_clientsRoundedUp ==
    (max_interpreters + interpreters_per_client - 1) \div interpreters_per_client

max_clients == max_interpreters \div interpreters_per_client

optimal_number_of_request_workers == Min(2 * max_clients, cfg.cpu_count)

optimal_max_queue_size == max_clients * interpreters_per_client * 2

\* Server.__init__: None is replaced by the derived value.
num_worker_threads ==
    IF cfg.num_worker_threads = None
    THEN optimal_number_of_request_workers
    ELSE cfg.num_worker_threads

max_queue_size ==
    IF cfg.max_queue_size = None THEN optimal_max_queue_size ELSE cfg.max_queue_size

----------------------------------------------------------------------------
(* validate_environment *)

\* Path(environment).expanduser().resolve()
Resolve(raw) ==
    CASE raw = "/env1/" -> "/env1"
      [] raw = ""       -> Cwd
      [] OTHER          -> raw

\* (mutant) the site-packages directory is not looked for
validate_environmentUnchecked(raw) ==
    IF raw = "$system"
    THEN [env |-> "$system", exc |-> NoExc]
    ELSE [env |-> Resolve(raw), exc |-> NoExc]

validate_environment(raw) ==
    IF raw = "$system"
    THEN [env |-> "$system", exc |-> NoExc]
    ELSE LET p == Resolve(raw)
         IN  IF p \in EnvDirs
             THEN [env |-> p, exc |-> NoExc]
             ELSE [env |-> p, exc |-> LookupExc(p)]

----------------------------------------------------------------------------
(* _InterpreterProcess *)

FreeProc == [status |-> "free", environment |-> "", inq |-> <<>>, outq |-> <<>>]

\* The handle a new _InterpreterProcess object gets: one no live object has.
NewPid(pr) ==
    CHOOSE p \in Pids :
        /\ pr[p].status = "free"
        /\ \A q \in Pids : pr[q].status = "free" => p <= q

\* _InterpreterProcess(environment): the child is started, both pipes empty.
Spawn(pr, env) ==
    [pr EXCEPT ![NewPid(pr)] =
        [status |-> "alive", environment |-> env, inq |-> <<>>, outq |-> <<>>]]

\* _InterpreterProcess.stop: the child is terminated and both pipes closed.
Stop(pr, p) ==
    [pr EXCEPT ![p] = [@ EXCEPT !.status = "stopped", !.inq = <<>>, !.outq = <<>>]]

\* for interpreter in interpreters.values(): interpreter.stop(), from the
\* i-th item on: the processes after the calls, and the exception that ended
\* the loop at a process stopped before.
RECURSIVE StopEach(_, _, _)
StopEach(pr, d, i) ==
    IF i > Len(d) THEN [procs |-> pr, exc |-> NoExc]
    ELSE IF pr[d[i].interpreter].status = "stopped"
    THEN [procs |-> pr, exc |-> ClosedProcessExc]
    ELSE StopEach(Stop(pr, d[i].interpreter), d, i + 1)

RECURSIVE StopAll(_, _)
StopAll(pr, ps) ==
    IF ps = {} THEN pr
    ELSE LET p == CHOOSE x \in ps : TRUE
         IN  StopAll(Stop(pr, p), ps \ {p})

----------------------------------------------------------------------------
(* ClientInfo.interpreters: a dict, kept as the sequence of its items in *)
(* insertion order                                                        *)

Keys(d) == {d[i].environment : i \in 1 .. Len(d)}

KeyList(d) == [i \in 1 .. Len(d) |-> d[i].environment]

Handles(d) == {d[i].interpreter : i \in 1 .. Len(d)}

Get(d, env) ==
    (CHOOSE i \in 1 .. Len(d) : d[i].environment = env)

Lookup(d, env) == d[Get(d, env)].interpreter

Without(d, env) == SelectSeq(d, LAMBDA it : it.environment # env)

Registered == DOMAIN clients

total_active_processes(cl) ==
    LET RECURSIVE Sum(_)
        Sum(S) == IF S = {} THEN 0
                  ELSE LET c == CHOOSE x \in S : TRUE
                       IN  Len(cl[c].interpreters) + Sum(S \ {c})
    IN  Sum(DOMAIN cl)

----------------------------------------------------------------------------
(* ClientManager: each method runs under self._lock, so it is one atomic  *)
(* step from (clients, procs) to a result                                  *)

Result(cl, pr, exc, ret) == [clients |-> cl, procs |-> pr, exc |-> exc, ret |-> ret]

NewClient(env, p) ==
    [default_environment |-> env,
     current |-> [environment |-> env, interpreter |-> p],
     interpreters |-> <<[environment |-> env, interpreter |-> p]>>]

\* (mutant) the client limit check off by one
CanAcceptClientOffByOne(cl) == Cardinality(DOMAIN cl) <= max_clients

\* register: len(self._clients) < self.max_clients
CanAcceptClient(cl) == Cardinality(DOMAIN cl) < max_clients

\* (mutant) the client limit is not checked
registerUnlimited(cl, pr, cid, raw) ==
    IF cid \in DOMAIN cl
    THEN Result(cl, pr, NoExc, "")
    ELSE LET v == validate_environment(IF raw = "" THEN "$system" ELSE raw)
         IN  IF v.exc # NoExc
             THEN Result(cl, pr, v.exc, "")
             ELSE LET p == NewPid(pr)
                  IN  Result([c \in DOMAIN cl \cup {cid} |->
                                 IF c = cid THEN NewClient(v.env, p) ELSE cl[c]],
                             Spawn(pr, v.env), NoExc, "")

\* (mutant) the environment is validated before the known-client check
registerValidatesFirst(cl, pr, cid, raw) ==
    LET v == validate_environment(IF raw = "" THEN "$system" ELSE raw)
    IN  IF v.exc # NoExc
        THEN Result(cl, pr, v.exc, "")
        ELSE IF cid \in DOMAIN cl
        THEN Result(cl, pr, NoExc, "")
        ELSE IF ~CanAcceptClient(cl)
        THEN Result(cl, pr, ClientLimitExc, "")
        ELSE Result([c \in DOMAIN cl \cup {cid} |->
                        IF c = cid THEN NewClient(v.env, NewPid(pr)) ELSE cl[c]],
                    Spawn(pr, v.env), NoExc, "")

\* ClientManager.register(client_id, environment)
register(cl, pr, cid, raw) ==
    IF cid \in DOMAIN cl
    THEN Result(cl, pr, NoExc, "")
    ELSE IF ~CanAcceptClient(cl)
    THEN Result(cl, pr, ClientLimitExc, "")
    ELSE LET v == validate_environment(IF raw = "" THEN "$system" ELSE raw)
         IN  IF v.exc # NoExc
             THEN Result(cl, pr, v.exc, "")
             ELSE LET p == NewPid(pr)
                  IN  Result([c \in DOMAIN cl \cup {cid} |->
                                 IF c = cid THEN NewClient(v.env, p) ELSE cl[c]],
                             Spawn(pr, v.env), NoExc, "")

\* (mutant) the per-client limit check off by one
CanSpawnOffByOne(cl, info) ==
    /\ Len(info.interpreters) <= interpreters_per_client
    /\ total_active_processes(cl) < max_interpreters

\* (mutant) only the global limit is checked
CanSpawnGlobalOnly(cl, info) == total_active_processes(cl) < max_interpreters

\* switch_interpreter: the client and total process limits
CanSpawn(cl, info) ==
    /\ Len(info.interpreters) < interpreters_per_client
    /\ total_active_processes(cl) < max_interpreters

\* (mutant) the limits are checked before the client's interpreters are looked up
switch_interpreterLimitsFirst(cl, pr, cid, raw) ==
    IF cid \notin DOMAIN cl
    THEN Result(cl, pr, ClientNotFoundExc(cid), "")
    ELSE LET v    == validate_environment(raw)
             info == cl[cid]
         IN  IF v.exc # NoExc
             THEN Result(cl, pr, v.exc, "")
             ELSE IF info.current.environment = v.env
             THEN Result(cl, pr, NoExc, v.env)
             ELSE IF ~CanSpawn(cl, info)
             THEN Result(cl, pr, ProcessLimitExc, "")
             ELSE IF v.env \in Keys(info.interpreters)
             THEN Result([cl EXCEPT ![cid].current =
                             [environment |-> v.env,
                              interpreter |-> Lookup(info.interpreters, v.env)]],
                         pr, NoExc, v.env)
             ELSE LET p  == NewPid(pr)
                      it == [environment |-> v.env, interpreter |-> p]
                  IN  Result([cl EXCEPT ![cid].interpreters = Append(@, it),
                                        ![cid].current = it],
                             Spawn(pr, v.env), NoExc, v.env)

\* ClientManager.switch_interpreter(client_id, environment)
switch_interpreter(cl, pr, cid, raw) ==
    IF cid \notin DOMAIN cl
    THEN Result(cl, pr, ClientNotFoundExc(cid), "")
    ELSE LET v    == validate_environment(raw)
             info == cl[cid]
         IN  IF v.exc # NoExc
             THEN Result(cl, pr, v.exc, "")
             ELSE IF info.current.environment = v.env
             THEN Result(cl, pr, NoExc, v.env)
             ELSE IF v.env \in Keys(info.interpreters)
             THEN Result([cl EXCEPT ![cid].current =
                             [environment |-> v.env,
                              interpreter |-> Lookup(info.interpreters, v.env)]],
                         pr, NoExc, v.env)
             ELSE IF CanSpawn(cl, info)
             THEN LET p  == NewPid(pr)
                      it == [environment |-> v.env, interpreter |-> p]
                  IN  Result([cl EXCEPT ![cid].interpreters = Append(@, it),
                                        ![cid].current = it],
                             Spawn(pr, v.env), NoExc, v.env)
             ELSE Result(cl, pr, ProcessLimitExc, "")

\* (mutant) the KeyError of pop() is not caught
delete_interpreterRaises(cl, pr, cid, raw) ==
    IF cid \notin DOMAIN cl
    THEN Result(cl, pr, NoExc, "")
    ELSE LET v    == validate_environment(raw)
             info == cl[cid]
         IN  IF v.exc # NoExc
             THEN Result(cl, pr, v.exc, "")
             ELSE IF v.env \notin Keys(info.interpreters)
             THEN Result(cl, pr, Exc("KeyError", "%r", v.env), "")
             ELSE Result([cl EXCEPT ![cid].interpreters = Without(@, v.env)],
                         Stop(pr, Lookup(info.interpreters, v.env)), NoExc, "")

\* ClientManager.delete_interpreter(client_id, environment)
delete_interpreter(cl, pr, cid, raw) ==
    IF cid \notin DOMAIN cl
    THEN Result(cl, pr, NoExc, "")
    ELSE LET v    == validate_environment(raw)
             info == cl[cid]
         IN  IF v.exc # NoExc
             THEN Result(cl, pr, v.exc, "")
             ELSE IF v.env \notin Keys(info.interpreters)
             THEN Result(cl, pr, NoExc, "")
             ELSE IF pr[Lookup(info.interpreters, v.env)].status = "stopped"
             THEN Result([cl EXCEPT ![cid].interpreters = Without(@, v.env)],
                         pr, ClosedProcessExc, "")
             ELSE Result([cl EXCEPT ![cid].interpreters = Without(@, v.env)],
                         Stop(pr, Lookup(info.interpreters, v.env)), NoExc, "")

\* (mutant) the workers of every client are stopped
removeStopsEveryone(cl, pr, cid) ==
    IF cid \notin DOMAIN cl
    THEN Result(cl, pr, NoExc, "")
    ELSE Result([c \in DOMAIN cl \ {cid} |-> cl[c]],
                StopAll(pr, UNION {Handles(cl[c].interpreters) : c \in DOMAIN cl}),
                NoExc, "")

\* (mutant) the record is dropped without stopping the client's workers
removeKeepsWorkers(cl, pr, cid) ==
    IF cid \notin DOMAIN cl
    THEN Result(cl, pr, NoExc, "")
    ELSE Result([c \in DOMAIN cl \ {cid} |-> cl[c]], pr, NoExc, "")

\* ClientManager.remove(client_id)
remove(cl, pr, cid) ==
    IF cid \notin DOMAIN cl
    THEN Result(cl, pr, NoExc, "")
    ELSE LET s == StopEach(pr, cl[cid].interpreters, 1)
         IN  IF s.exc # NoExc
             THEN Result(cl, s.procs, s.exc, "")
             ELSE Result([c \in DOMAIN cl \ {cid} |-> cl[c]], s.procs, NoExc, "")

\* The handles some object still refers to: the interpreters maps, the
\* current contexts and the dispatcher threads' local variables.
Referenced(cl, hd) ==
    UNION {Handles(cl[c].interpreters) \cup {cl[c].current.interpreter} : c \in DOMAIN cl}
        \cup {hd[t] : t \in DOMAIN hd}

\* A stopped _InterpreterProcess object nothing refers to any more is gone.
\* (A running child outlives its handle.)
Collect(pr, cl, hd) ==
    [p \in Pids |->
        IF pr[p].status = "stopped" /\ p \notin Referenced(cl, hd)
        THEN FreeProc ELSE pr[p]]

----------------------------------------------------------------------------
(* Requests, responses and the frames on the wire *)

\* The request classes of types.py as request_worker.py names them.
StreamingKinds == {"SetEnvironmentVariables", "RunCommand", "InstallRequirements", "RunCode"}

Request(id, cid, kind, arg, mode) ==
    [id |-> id, client |-> cid, kind |-> kind, arg |-> arg, mode |-> mode]

NoRequest == Request(0, "", "", "", "")

\* The environments the requests of a run name.
ReqEnvs == {"$system", "/env1", "/bad"}

\* Every request a client can send as the id-th message of a run.
AllRequests(id, c) ==
    {Request(id, c, "GetEnvrionment", a, "") : a \in {"current", "all", "default"}}
    \cup {Request(id, c, "ModifyInterpreter", e, m) :
            e \in ReqEnvs, m \in {"switch", "delete"}}
    \cup {Request(id, c, k, "", "") : k \in StreamingKinds \cup {"Disconnect"}}

\* The requests of a run: client a sends any request, the other clients are
\* the tenants it shares the broker's caps with.
Requests(id) ==
    AllRequests(id, "a")
    \cup {Request(id, c, "ModifyInterpreter", "/env1", "switch") : c \in ClientIds \ {"a"}}
    \cup {Request(id, c, k, "", "") : c \in ClientIds \ {"a"}, k \in {"RunCode", "Disconnect"}}

\* What a worker process puts on its output pipe; id is the request it is for.
Out(type, id) == [type |-> type, id |-> id]

NoOut == Out("", 0)

Completed(id) == Out("_completed", id)

Body(kind, env, envs, exc, out) ==
    [kind |-> kind, env |-> env, envs |-> envs, exc |-> exc, out |-> out]

\* pickle.dumps(environment)
EnvBody(env) == Body("environment", env, <<>>, NoExc, NoOut)

\* pickle.dumps(list(client_info.interpreters))
ListBody(envs) == Body("list", "", envs, NoExc, NoOut)

\* b""
EmptyBody == Body("empty", "", <<>>, NoExc, NoOut)

\* str(e).encode()
TextBody(exc) == Body("text", "", <<>>, exc, NoOut)

\* pickle.dumps(response)
OutBody(out) == Body("response", "", <<>>, NoExc, out)

Frame(tag, body) == [tag |-> tag, body |-> body]

QueueFullExc == Exc("", "Server request queue is full. Try again later.", "")

----------------------------------------------------------------------------
(* Initial state *)

\* The constructors have not run.
NoLimits == [constructed |-> FALSE]

\* Switchable(target) for the callable "orig", which is what the attribute
\* of its parent holds.
NewSwitchable ==
    [current_target |-> "orig", target_stack |-> <<>>, installed |-> "orig",
     before |-> <<>>, last |-> "init"]

\* The dispatcher threads Server.__init__ creates.
Workers == {t \in Threads : t <= num_worker_threads}

NoCall == [op |-> "", client |-> "", env |-> "", exc |-> NoExc, ret |-> "", stops |-> 0]

NoRecv == [id |-> 0, client |-> "", enqueued |-> FALSE, sent |-> <<>>]

\* No _InterpreterProcess object has this handle. state is the child
\* process ("blocked" in input_queue.get(), "executing" a request, "exited"
\* by itself, "dead" by a signal), event is _process_event, pipes the two
\* queues, stop the position of the stop() call, term and kill whether
\* terminate() and kill() were called.
NoChild ==
    [state |-> "none", event |-> FALSE, pipes |-> "none", stop |-> "none",
     term |-> FALSE, kill |-> FALSE]

\* A connected Client that has sent nothing. sent counts its requests,
\* state is where _send_request is ("idle": not in it), got the messages it
\* has received for the request, outcome how the request ended, inbox the
\* messages that have arrived on the socket, pending the requests the
\* broker has not fully answered with the frames still to send for each.
ConnectedClient ==
    [sent |-> 0, state |-> "idle", got |-> <<>>, outcome |-> "", inbox |-> <<>>,
     pending |-> <<>>]

\* Everything but the constructor arguments.
Fresh ==
    /\ limits = NoLimits
    /\ dealer = ConnectedClient
    /\ clients = <<>>
    /\ procs = [p \in Pids |-> FreeProc]
    /\ queue = <<>>
    /\ pc = [t \in Threads |-> "idle"]
    /\ req = [t \in Threads |-> NoRequest]
    /\ frames = [t \in Threads |-> <<>>]
    /\ denv = [t \in Threads |-> ""]
    /\ held = [t \in Threads |-> 0]
    /\ received = 0
    /\ lastRecv = NoRecv
    /\ call = NoCall
    /\ emitted = [t \in Threads |-> <<>>]
    /\ server = "listening"
    /\ stop_event = FALSE
    /\ child = [p \in Pids |-> NoChild]
    /\ sw = NewSwitchable

Init == cfg \in Configs /\ Fresh

----------------------------------------------------------------------------
(* Server.run: the front-end's receive loop *)

\* (mutant) the queue takes one item more than its maxsize
FullOffByOne(q) == max_queue_size > 0 /\ Len(q) > max_queue_size

\* queue.Queue.put_nowait raises Full: maxsize <= 0 is an unbounded queue.
Full(q) == max_queue_size > 0 /\ Len(q) >= max_queue_size

\* One iteration that receives a three-frame message (client_id, b"", request),
\* in a run of at most max messages.
ReceiveUpTo(r, max) ==
    /\ server = "listening"
    /\ received < max
    /\ received' = received + 1
    /\ IF Full(queue)
       THEN /\ queue' = queue
            /\ lastRecv' = [id |-> r.id, client |-> r.client, enqueued |-> FALSE,
                            sent |-> <<Frame("request_exception", TextBody(QueueFullExc))>>]
       ELSE /\ queue' = Append(queue, r)
            /\ lastRecv' = [id |-> r.id, client |-> r.client, enqueued |-> TRUE,
                            sent |-> <<>>]
    /\ UNCHANGED <<cfg, dealer, sw, limits, server, stop_event, child, emitted, clients, procs, pc, req, frames, denv, held, call>>

Receive(r) == ReceiveUpTo(r, MaxRequests)

----------------------------------------------------------------------------
(* RequestWorker.run: one dispatcher thread *)

\* self._callback(client_id, tag, body)
Sent(t, tag, body) == [frames EXCEPT ![t] = Append(@, Frame(tag, body))]

\* self._queue.get(timeout=1) returned an item; pickle.loads(request_bytes)
Dequeue(t) ==
    /\ t \in Workers
    /\ pc[t] \in {"idle", "done"}
    /\ ~stop_event
    /\ queue # <<>>
    /\ req' = [req EXCEPT ![t] = Head(queue)]
    /\ queue' = Tail(queue)
    /\ frames' = [frames EXCEPT ![t] = <<>>]
    /\ emitted' = [emitted EXCEPT ![t] = <<>>]
    /\ pc' = [pc EXCEPT ![t] = "register"]
    /\ UNCHANGED <<cfg, dealer, sw, limits, server, stop_event, child, clients, procs, denv, held, received, lastRecv, call>>

\* (mutant) every first-contact client is registered with the default argument
RegisterEnvSystem(r) == "$system"

\* The environment run() registers a first-contact client with.
RegisterEnv(r) == IF r.kind = "ModifyInterpreter" THEN r.arg ELSE "$system"

\* (mutant) the except clause lacks its continue
DoRegisterFallsThrough(t) ==
    /\ pc[t] = "register"
    /\ LET r == register(clients, procs, req[t].client, RegisterEnv(req[t]))
       IN  /\ clients' = r.clients
           /\ procs' = Collect(r.procs, r.clients, held)
           /\ frames' = IF r.exc # NoExc
                        THEN Sent(t, "request_exception", TextBody(r.exc))
                        ELSE frames
           /\ pc' = [pc EXCEPT ![t] = "dispatch"]
    /\ UNCHANGED <<cfg, dealer, sw, limits, server, stop_event, child, emitted, queue, req, denv, held, received, lastRecv, call>>

\* self._client_manager.register(...), with its except clause
DoRegister(t) ==
    /\ pc[t] = "register"
    /\ LET r == register(clients, procs, req[t].client, RegisterEnv(req[t]))
       IN  /\ clients' = r.clients
           /\ procs' = Collect(r.procs, r.clients, held)
           /\ IF r.exc # NoExc
              THEN /\ frames' = Sent(t, "request_exception", TextBody(r.exc))
                   /\ pc' = [pc EXCEPT ![t] = "done"]
              ELSE /\ frames' = frames
                   /\ pc' = [pc EXCEPT ![t] = "dispatch"]
    /\ UNCHANGED <<cfg, dealer, sw, limits, server, stop_event, child, emitted, queue, req, denv, held, received, lastRecv, call>>

\* RequestWorker._get_environment
GetEnvironment(t) ==
    /\ pc[t] = "dispatch"
    /\ req[t].kind = "GetEnvrionment"
    /\ frames' =
         IF req[t].client \notin Registered THEN frames
         ELSE IF req[t].arg = "current"
         THEN Sent(t, "request_done", EnvBody(clients[req[t].client].current.environment))
         ELSE IF req[t].arg = "all"
         THEN Sent(t, "request_done", ListBody(KeyList(clients[req[t].client].interpreters)))
         ELSE frames
    /\ pc' = [pc EXCEPT ![t] = "done"]
    /\ UNCHANGED <<cfg, dealer, sw, limits, server, stop_event, child, emitted, clients, procs, queue, req, denv, held, received, lastRecv, call>>

\* _modify_interpreter's _switch(env), with the except clause around it
SwitchAndReply(t, env) ==
    LET r == switch_interpreter(clients, procs, req[t].client, env)
    IN  /\ clients' = r.clients
        /\ procs' = Collect(r.procs, r.clients, held)
        /\ frames' = IF r.exc # NoExc
                     THEN Sent(t, "request_exception", TextBody(r.exc))
                     ELSE Sent(t, "request_done", EnvBody(r.ret))
        /\ pc' = [pc EXCEPT ![t] = "done"]

\* RequestWorker._modify_interpreter, mode == "switch"
ModifySwitch(t) ==
    /\ pc[t] = "dispatch"
    /\ req[t].kind = "ModifyInterpreter"
    /\ req[t].mode = "switch"
    /\ SwitchAndReply(t, req[t].arg)
    /\ UNCHANGED <<cfg, dealer, sw, limits, server, stop_event, child, emitted, queue, req, denv, held, received, lastRecv, call>>

\* RequestWorker._modify_interpreter, mode == "delete": delete_interpreter(...)
ModifyDelete(t) ==
    /\ pc[t] = "dispatch"
    /\ req[t].kind = "ModifyInterpreter"
    /\ req[t].mode = "delete"
    /\ LET r == delete_interpreter(clients, procs, req[t].client, req[t].arg)
       IN  /\ clients' = r.clients
           /\ procs' = Collect(r.procs, r.clients, held)
           /\ IF r.exc # NoExc
              THEN /\ frames' = Sent(t, "request_exception", TextBody(r.exc))
                   /\ pc' = [pc EXCEPT ![t] = "done"]
              ELSE /\ frames' = frames
                   /\ pc' = [pc EXCEPT ![t] = "getinfo"]
    /\ UNCHANGED <<cfg, dealer, sw, limits, server, stop_event, child, emitted, queue, req, denv, held, received, lastRecv, call>>

\* ... then get_info(client_id_str).default_environment
ModifyGetInfo(t) ==
    /\ pc[t] = "getinfo"
    /\ IF req[t].client \notin Registered
       THEN /\ frames' = Sent(t, "request_exception", TextBody(NoneAttrExc))
            /\ pc' = [pc EXCEPT ![t] = "done"]
            /\ denv' = denv
       ELSE /\ frames' = frames
            /\ pc' = [pc EXCEPT ![t] = "switch"]
            /\ denv' = [denv EXCEPT ![t] = clients[req[t].client].default_environment]
    /\ UNCHANGED <<cfg, dealer, sw, limits, server, stop_event, child, emitted, clients, procs, queue, req, held, received, lastRecv, call>>

\* ... then _switch(default_environment)
ModifySwitchDefault(t) ==
    /\ pc[t] = "switch"
    /\ SwitchAndReply(t, denv[t])
    /\ denv' = [denv EXCEPT ![t] = ""]
    /\ UNCHANGED <<cfg, dealer, sw, limits, server, stop_event, child, emitted, queue, req, held, received, lastRecv, call>>

\* RequestWorker._remove_client (an exception of remove is logged by run())
Disconnect(t) ==
    /\ pc[t] = "dispatch"
    /\ req[t].kind = "Disconnect"
    /\ LET r == remove(clients, procs, req[t].client)
       IN  /\ clients' = r.clients
           /\ procs' = Collect(r.procs, r.clients, held)
           /\ frames' = IF r.exc # NoExc THEN frames
                        ELSE Sent(t, "request_done", EmptyBody)
    /\ pc' = [pc EXCEPT ![t] = "done"]
    /\ UNCHANGED <<cfg, dealer, sw, limits, server, stop_event, child, emitted, queue, req, denv, held, received, lastRecv, call>>

\* A request class run() has no isinstance branch for: nothing is done.
NoBranch(t) ==
    /\ pc[t] = "dispatch"
    /\ req[t].kind \in {"SetEnvironmentVariables", "RunCommand"}
    /\ pc' = [pc EXCEPT ![t] = "done"]
    /\ UNCHANGED <<cfg, dealer, sw, limits, server, stop_event, child, emitted, clients, procs, queue, req, frames, denv, held, received,
                   lastRecv, call>>

\* The keyword _send_input is called with.
Shape(kind) == IF kind = "RunCode" THEN "code" ELSE "requirements"

\* _install_requirements / _run_code: get_info(...), then the first step of
\* current.interpreter._send_input(...): self._input_queue.put(kwargs).
\* A put on the closed pipe of a stopped process raises; run() logs it. The
\* pipes of a child that died are still open.
SendInput(t) ==
    /\ pc[t] = "dispatch"
    /\ req[t].kind \in {"InstallRequirements", "RunCode"}
    /\ IF req[t].client \notin Registered
       THEN /\ pc' = [pc EXCEPT ![t] = "done"]
            /\ UNCHANGED <<procs, held>>
       ELSE LET p == clients[req[t].client].current.interpreter
            IN  IF procs[p].status = "stopped"
                THEN /\ pc' = [pc EXCEPT ![t] = "done"]
                     /\ UNCHANGED <<procs, held>>
                ELSE /\ pc' = [pc EXCEPT ![t] = "drain"]
                     /\ held' = [held EXCEPT ![t] = p]
                     /\ procs' = [procs EXCEPT ![p].inq =
                                     Append(@, [shape |-> Shape(req[t].kind),
                                                id |-> req[t].id])]
    /\ UNCHANGED <<cfg, dealer, sw, limits, server, stop_event, child, emitted, clients, queue, req, frames, denv, received, lastRecv, call>>

\* (mutant) a get on the closed pipe of a stopped process is a timeout like
\* any other
DrainPollsClosed(t) ==
    /\ pc[t] = "drain"
    /\ LET p == held[t]
       IN  /\ procs[p].outq # <<>>
           /\ LET o == Head(procs[p].outq)
              IN  IF o.type = "_completed"
                  THEN /\ pc' = [pc EXCEPT ![t] = "done"]
                       /\ held' = [held EXCEPT ![t] = 0]
                       /\ procs' = Collect([procs EXCEPT ![p].outq = Tail(@)],
                                           clients, held')
                       /\ frames' = IF req[t].kind = "InstallRequirements"
                                    THEN Sent(t, "request_done", EmptyBody)
                                    ELSE frames
                  ELSE /\ pc' = pc
                       /\ held' = held
                       /\ procs' = [procs EXCEPT ![p].outq = Tail(@)]
                       /\ frames' = Sent(t, "interpreter", OutBody(o))
    /\ UNCHANGED <<cfg, dealer, sw, limits, server, stop_event, child, emitted, clients, queue, req, denv, received, lastRecv, call>>

\* _send_input's loop: self._output_queue.get(timeout=1) returned an output,
\* or raised because the process was stopped and its pipe closed (run() logs
\* the exception). An empty pipe is a timeout: the loop tries again, also
\* when the child has died.
Drain(t) ==
    /\ pc[t] = "drain"
    /\ LET p == held[t]
       IN  IF procs[p].status = "stopped"
           THEN /\ pc' = [pc EXCEPT ![t] = "done"]
                /\ held' = [held EXCEPT ![t] = 0]
                /\ procs' = Collect(procs, clients, held')
                /\ frames' = frames
           ELSE /\ procs[p].outq # <<>>
                /\ LET o == Head(procs[p].outq)
                   IN  IF o.type = "_completed"
                       THEN /\ pc' = [pc EXCEPT ![t] = "done"]
                            /\ held' = [held EXCEPT ![t] = 0]
                            /\ procs' = Collect([procs EXCEPT ![p].outq = Tail(@)],
                                                clients, held')
                            /\ frames' = IF req[t].kind = "InstallRequirements"
                                         THEN Sent(t, "request_done", EmptyBody)
                                         ELSE frames
                       ELSE /\ pc' = pc
                            /\ held' = held
                            /\ procs' = [procs EXCEPT ![p].outq = Tail(@)]
                            /\ frames' = Sent(t, "interpreter", OutBody(o))
    /\ UNCHANGED <<cfg, dealer, sw, limits, server, stop_event, child, emitted, clients, queue, req, denv, received, lastRecv, call>>

----------------------------------------------------------------------------
(* _process_event_loop: the child process of one _InterpreterProcess *)

\* n Stream frames of request id.
Streams(n, id) == [i \in 1 .. n |-> Out("Stream", id)]

\* (mutant) run_code's return value is put before what it streamed
OutputsFinalFirst(in) ==
    IF in.shape = "code"
    THEN {<<Out(last, in.id)>> \o Streams(n, in.id) \o <<Completed(in.id)>> :
             n \in StreamCounts, last \in {"Result", "ExceptionInfo"}}
    ELSE {Streams(n, in.id) \o <<Completed(in.id)>> : n \in StreamCounts}

\* What one request makes the child put on its output pipe.
\* (An unrecognised request takes the loop's continue: nothing is put.)
Outputs(in) ==
    CASE in.shape = "code" ->
           {Streams(n, in.id) \o <<Out(last, in.id)>> \o <<Completed(in.id)>> :
               n \in StreamCounts, last \in {"Result", "ExceptionInfo"}}
      [] in.shape \in {"cmd", "requirements"} ->
           {Streams(n, in.id) \o <<Completed(in.id)>> : n \in StreamCounts}
      [] in.shape = "environment_variables" ->
           {<<Completed(in.id)>>}
      [] OTHER ->
           {<<>>}

\* request = input_queue.get(); ...; output_queue.put(_completed)
WorkerRun(p) ==
    /\ procs[p].status = "alive"
    /\ procs[p].inq # <<>>
    /\ \E outs \in Outputs(Head(procs[p].inq)) :
          /\ procs' = [procs EXCEPT ![p].inq = Tail(@), ![p].outq = @ \o outs]
          /\ emitted' = [t \in Threads |->
                            IF pc[t] = "drain" /\ req[t].id = Head(procs[p].inq).id
                            THEN SubSeq(outs, 1, Len(outs) - 1)
                            ELSE emitted[t]]
    /\ UNCHANGED <<cfg, dealer, sw, limits, server, stop_event, child, clients, queue, pc, req, frames, denv, held, received,
                   lastRecv, call>>

\* The child dies of a request: an error raised out of the loop
\* (run_command, install_requirements) or a SystemExit out of run_code ends
\* the process after the Stream responses it had put, with no _completed.
\* The parent's _InterpreterProcess object and its pipes stay as they are.
WorkerDies(p) ==
    /\ procs[p].status = "alive"
    /\ procs[p].inq # <<>>
    /\ Head(procs[p].inq).shape \in {"code", "cmd", "requirements", "environment_variables"}
    /\ \E n \in StreamCounts :
          LET in   == Head(procs[p].inq)
              outs == Streams(n, in.id)
          IN  /\ procs' = [procs EXCEPT ![p].status = "dead", ![p].inq = Tail(@),
                                        ![p].outq = @ \o outs]
              /\ emitted' = [t \in Threads |->
                                IF pc[t] = "drain" /\ req[t].id = in.id
                                THEN outs
                                ELSE emitted[t]]
    /\ UNCHANGED <<cfg, dealer, sw, limits, server, stop_event, child, clients, queue, pc, req,
                   frames, denv, held, received, lastRecv, call>>

----------------------------------------------------------------------------
(* The broker: the front-end, the dispatcher threads, the worker processes *)

Next ==
    \/ \E r \in Requests(received + 1) : Receive(r)
    \/ \E t \in Threads :
          \/ Dequeue(t)
          \/ DoRegister(t)
          \/ GetEnvironment(t)
          \/ ModifySwitch(t)
          \/ ModifyDelete(t)
          \/ ModifyGetInfo(t)
          \/ ModifySwitchDefault(t)
          \/ Disconnect(t)
          \/ NoBranch(t)
          \/ SendInput(t)
          \/ Drain(t)
    \/ \E p \in Pids : WorkerRun(p)
    \/ \E p \in Pids : WorkerDies(p)

Spec == Init /\ [][Next]_vars

----------------------------------------------------------------------------
(* Server.run from start to shutdown: the receive loop with malformed      *)
(* messages, the signal handlers and the finally block                     *)

\* The frame counts of a malformed message.
BadFrameCounts == {1, 2, 4}

InvalidFramesExc == Exc("", "Invalid number of frames received", "")

\* One iteration that receives a message of n # 3 frames from identity c:
\* the callback is called with frames[0], then the unpacking of frames into
\* three names raises ValueError, which only the outer handler catches; the
\* receive loop is left for the finally block.
ReceiveInvalid(c, n) ==
    /\ server = "listening"
    /\ received < MaxRequests
    /\ n # 3
    /\ received' = received + 1
    /\ lastRecv' = [id |-> received + 1, client |-> c, enqueued |-> FALSE,
                    sent |-> <<Frame("request_exception", TextBody(InvalidFramesExc))>>]
    /\ server' = "finally"
    /\ UNCHANGED <<cfg, dealer, sw, limits, stop_event, child, emitted, clients, procs, queue, pc, req, frames,
                   denv, held, call>>

\* SIGINT / SIGTERM: the handler sets the event.
Signal ==
    /\ server # "closed"
    /\ ~stop_event
    /\ stop_event' = TRUE
    /\ UNCHANGED <<cfg, dealer, sw, limits, server, child, emitted, clients, procs, queue, pc, req, frames,
                   denv, held, received, lastRecv, call>>

\* while not self._server_event.is_set(): the loop ends.
LeaveLoop ==
    /\ server = "listening"
    /\ stop_event
    /\ server' = "finally"
    /\ UNCHANGED <<cfg, dealer, sw, limits, stop_event, child, emitted, clients, procs, queue, pc, req, frames,
                   denv, held, received, lastRecv, call>>

\* ClientManager.cleanup, its loops: every interpreter of every client is
\* stopped. No lock is taken.
CleanupStop ==
    /\ server = "finally"
    /\ server' = "clearing"
    /\ procs' = Collect(StopAll(procs, UNION {Handles(clients[c].interpreters) :
                                                 c \in Registered}),
                        clients, held)
    /\ UNCHANGED <<cfg, dealer, sw, limits, stop_event, child, emitted, clients, queue, pc, req, frames,
                   denv, held, received, lastRecv, call>>

\* ClientManager.cleanup, its last line: self._clients.clear()
CleanupClear ==
    /\ server = "clearing"
    /\ server' = "joining"
    /\ clients' = <<>>
    /\ procs' = Collect(procs, clients', held)
    /\ UNCHANGED <<cfg, dealer, sw, limits, stop_event, child, emitted, queue, pc, req, frames,
                   denv, held, received, lastRecv, call>>

\* RequestWorker.run: while not self._stop_event.is_set() ends the thread.
Exit(t) ==
    /\ t \in Workers
    /\ pc[t] \in {"idle", "done"}
    /\ stop_event
    /\ pc' = [pc EXCEPT ![t] = "exited"]
    /\ UNCHANGED <<cfg, dealer, sw, limits, server, stop_event, child, emitted, clients, procs, queue, req,
                   frames, denv, held, received, lastRecv, call>>

\* for worker in self._request_workers: worker.join() has returned for all.
Join ==
    /\ server = "joining"
    /\ \A t \in Workers : pc[t] = "exited"
    /\ server' = "joined"
    /\ UNCHANGED <<cfg, dealer, sw, limits, stop_event, child, emitted, clients, procs, queue, pc, req, frames,
                   denv, held, received, lastRecv, call>>

\* self.socket.close(); self.socket.context.term()
Close ==
    /\ server = "joined"
    /\ server' = "closed"
    /\ UNCHANGED <<cfg, dealer, sw, limits, stop_event, child, emitted, clients, procs, queue, pc, req, frames,
                   denv, held, received, lastRecv, call>>

NextServer ==
    \/ Next
    \/ \E c \in ClientIds, n \in BadFrameCounts : ReceiveInvalid(c, n)
    \/ Signal
    \/ LeaveLoop
    \/ CleanupStop
    \/ CleanupClear
    \/ \E t \in Threads : Exit(t)
    \/ Join
    \/ Close

SpecServer == Init /\ [][NextServer]_vars

----------------------------------------------------------------------------
(* One client that sends ModifyInterpreter and Disconnect requests without *)
(* waiting for the answers                                                 *)

PipelinedRequests(id) ==
    {Request(id, "a", "ModifyInterpreter", e, m) :
        e \in {"$system", "/env1"}, m \in {"switch", "delete"}}
    \cup {Request(id, "a", "Disconnect", "", "")}

NextPipelined ==
    \/ \E r \in PipelinedRequests(received + 1) : ReceiveUpTo(r, MaxPipelined)
    \/ \E t \in Threads :
          \/ Dequeue(t)
          \/ DoRegister(t)
          \/ ModifySwitch(t)
          \/ ModifyDelete(t)
          \/ ModifyGetInfo(t)
          \/ ModifySwitchDefault(t)
          \/ Disconnect(t)

SpecPipelined == Init /\ [][NextPipelined]_vars

----------------------------------------------------------------------------
(* One client whose worker is torn down (by a delete request, a Disconnect *)
(* request or the broker's shutdown) while its RunCode requests are served *)

TeardownRequests(id) ==
    {Request(id, "a", "RunCode", "", ""),
     Request(id, "a", "ModifyInterpreter", "$system", "delete"),
     Request(id, "a", "Disconnect", "", "")}

NextTeardown ==
    \/ \E r \in TeardownRequests(received + 1) : ReceiveUpTo(r, MaxTeardown)
    \/ \E t \in Threads :
          \/ Dequeue(t)
          \/ DoRegister(t)
          \/ ModifyDelete(t)
          \/ ModifyGetInfo(t)
          \/ ModifySwitchDefault(t)
          \/ Disconnect(t)
          \/ SendInput(t)
          \/ Drain(t)
          \/ Exit(t)
    \/ \E p \in Pids : WorkerRun(p)
    \/ Signal
    \/ LeaveLoop
    \/ CleanupStop
    \/ CleanupClear

SpecTeardown == Init /\ [][NextTeardown]_vars

----------------------------------------------------------------------------
(* _InterpreterProcess.stop, statement by statement, against a child that  *)
(* goes on running between the statements                                  *)

\* self._process.is_alive()
IsAlive(c) == c.state \in {"blocked", "executing"}

\* The steps of this specification change child only.
OnlyChild ==
    UNCHANGED <<cfg, dealer, sw, limits, server, stop_event, emitted, clients, procs, queue, pc, req, frames,
                denv, held, received, lastRecv, call>>

\* _InterpreterProcess(environment): the child starts and blocks on its
\* input pipe.
Start(p) ==
    /\ child[p].state = "none"
    /\ child' = [child EXCEPT ![p] = [NoChild EXCEPT !.state = "blocked", !.pipes = "open"]]
    /\ OnlyChild

\* _process_event_loop: input_queue.get() returns a request.
ChildGet(p) ==
    /\ child[p].state = "blocked"
    /\ child[p].pipes = "open"
    /\ child' = [child EXCEPT ![p].state = "executing"]
    /\ OnlyChild

\* _process_event_loop: the request is done; the loop goes on unless the
\* event is set.
ChildFinish(p) ==
    /\ child[p].state = "executing"
    /\ child' = [child EXCEPT ![p].state = IF child[p].event THEN "exited" ELSE "blocked"]
    /\ OnlyChild

\* The child exits while executing a request (the code it runs ends the
\* process, or an error is raised out of the loop).
ChildExit(p) ==
    /\ child[p].state = "executing"
    /\ child' = [child EXCEPT ![p].state = "exited"]
    /\ OnlyChild

\* stop(): self._process_event.set()
StopSet(p) ==
    /\ child[p].state # "none"
    /\ child[p].stop = "none"
    /\ child' = [child EXCEPT ![p].event = TRUE, ![p].stop = "event"]
    /\ OnlyChild

\* stop(): if is_alive(): terminate(); join(timeout=5). The child dies of
\* SIGTERM within the five seconds, or it does not (the signal is handled
\* or ignored in the child).
StopTerminate(p) ==
    /\ child[p].stop = "event"
    /\ IF IsAlive(child[p])
       THEN \E s \in {"dead", child[p].state} :
               child' = [child EXCEPT ![p].term = TRUE, ![p].state = s, ![p].stop = "grace"]
       ELSE child' = [child EXCEPT ![p].stop = "grace"]
    /\ OnlyChild

\* (mutant) the forced kill is left out
StopKillSkipped(p) ==
    /\ child[p].stop = "grace"
    /\ child' = [child EXCEPT ![p].stop = "killed"]
    /\ OnlyChild

\* stop(): if is_alive(): kill(); join()
StopKill(p) ==
    /\ child[p].stop = "grace"
    /\ IF IsAlive(child[p])
       THEN child' = [child EXCEPT ![p].kill = TRUE, ![p].state = "dead", ![p].stop = "killed"]
       ELSE child' = [child EXCEPT ![p].stop = "killed"]
    /\ OnlyChild

\* stop(): self._process.close() (which raises for a running process),
\* self._input_queue.close(), self._output_queue.close()
StopClose(p) ==
    /\ child[p].stop = "killed"
    /\ IF IsAlive(child[p])
       THEN child' = [child EXCEPT ![p].stop = "raised"]
       ELSE child' = [child EXCEPT ![p].pipes = "closed", ![p].stop = "returned"]
    /\ OnlyChild

\* The handles of the objects that are created and stopped.
Objects == {1, 2, 3}

NextStop ==
    \E p \in Objects :
        \/ Start(p)
        \/ ChildGet(p)
        \/ ChildFinish(p)
        \/ ChildExit(p)
        \/ StopSet(p)
        \/ StopTerminate(p)
        \/ StopKill(p)
        \/ StopClose(p)

SpecStop == Init /\ [][NextStop]_vars

----------------------------------------------------------------------------
(* Switchable: nested switch_to contexts of one thread                     *)

\* The steps of this specification change sw only.
OnlySwitchable ==
    UNCHANGED <<cfg, dealer, limits, server, stop_event, child, emitted, clients, procs, queue, pc, req,
                frames, denv, held, received, lastRecv, call>>

\* (mutant) the top of the stack is taken for the original
originalTop(s) ==
    IF s.target_stack # <<>> THEN s.target_stack[Len(s.target_stack)] ELSE s.current_target

\* Switchable.original
original(s) ==
    IF s.target_stack # <<>> THEN s.target_stack[1] ELSE s.current_target

\* switch_to(target), up to the yield
switch_to(target) ==
    /\ Len(sw.target_stack) < MaxDepth
    /\ sw' = [current_target |-> target,
              target_stack |-> Append(sw.target_stack, sw.current_target),
              installed |-> target,
              before |-> Append(sw.before, sw.installed),
              last |-> "enter"]
    /\ OnlySwitchable

\* switch_to's finally clause, reached because the body ended (how = "exit")
\* or because it raised (how = "raise")
switch_to_exit(how) ==
    /\ sw.target_stack # <<>>
    /\ LET n == Len(sw.target_stack)
       IN  sw' = [current_target |-> sw.target_stack[n],
                  target_stack |-> SubSeq(sw.target_stack, 1, n - 1),
                  installed |-> sw.target_stack[n],
                  before |-> SubSeq(sw.before, 1, Len(sw.before) - 1),
                  last |-> how]
    /\ OnlySwitchable

NextSwitchable ==
    \/ \E target \in Callables : switch_to(target)
    \/ \E how \in {"exit", "raise"} : switch_to_exit(how)

SpecSwitchable == Init /\ [][NextSwitchable]_vars

----------------------------------------------------------------------------
(* The constructors alone, for every host and every pair of arguments      *)

\* Every CPU count and every max_interpreters and interpreters_per_client
\* (None, 0 and the positive numbers), thread count and queue size derived.
AllConfigs ==
    [cpu_count : 1 .. MaxCpu,
     max_interpreters : {None} \cup (0 .. MaxConfigured),
     interpreters_per_client : {None} \cup (0 .. MaxConfigured),
     num_worker_threads : {None},
     max_queue_size : {None}]

InitConfig == cfg \in AllConfigs /\ Fresh

\* ClientManager(max_interpreters, interpreters_per_client) and the two
\* defaults of Server.__init__
Construct ==
    /\ ~limits.constructed
    /\ limits' = [constructed |-> TRUE,
                  cpu_count |-> cfg.cpu_count,
                  max_interpreters |-> max_interpreters,
                  interpreters_per_client |-> interpreters_per_client,
                  max_clients |-> max_clients,
                  num_worker_threads |-> num_worker_threads,
                  max_queue_size |-> max_queue_size]
    /\ UNCHANGED <<cfg, dealer, sw, server, stop_event, child, emitted, clients, procs, queue, pc,
                   req, frames, denv, held, received, lastRecv, call>>

NextConfig == Construct

SpecConfig == InitConfig /\ [][NextConfig]_vars

----------------------------------------------------------------------------
(* One _InterpreterProcess whose _send_input is called directly, with any  *)
(* keyword (as the tests of _InterpreterProcess do)                        *)

\* The keywords of the calls: the four the child knows and another one.
Keywords == {"code", "cmd", "requirements", "environment_variables", "command"}

\* _InterpreterProcess("$system")
StartProcess ==
    /\ \A p \in Pids : procs[p].status = "free"
    /\ procs' = Spawn(procs, "$system")
    /\ UNCHANGED <<cfg, dealer, sw, limits, server, stop_event, child, emitted, clients, queue, pc,
                   req, frames, denv, held, received, lastRecv, call>>

\* Thread t calls p._send_input(**{keyword: ...}) and iterates over the
\* result: self._input_queue.put(kwargs). frames[t] collects what the
\* generator yields.
CallSendInput(t, p, keyword) ==
    /\ pc[t] \in {"idle", "done"}
    /\ received < MaxCalls
    /\ procs[p].status \in {"alive", "dead"}
    /\ received' = received + 1
    /\ req' = [req EXCEPT ![t] = Request(received + 1, "", keyword, "", "")]
    /\ frames' = [frames EXCEPT ![t] = <<>>]
    /\ emitted' = [emitted EXCEPT ![t] = <<>>]
    /\ held' = [held EXCEPT ![t] = p]
    /\ pc' = [pc EXCEPT ![t] = "drain"]
    /\ procs' = [procs EXCEPT ![p].inq = Append(@, [shape |-> keyword, id |-> received + 1])]
    /\ UNCHANGED <<cfg, dealer, sw, limits, server, stop_event, child, clients, queue, denv,
                   lastRecv, call>>

NextWorker ==
    \/ StartProcess
    \/ \E t \in Threads, p \in Pids, keyword \in Keywords : CallSendInput(t, p, keyword)
    \/ \E t \in Threads : Drain(t)
    \/ \E p \in Pids : WorkerRun(p)
    \/ \E p \in Pids : WorkerDies(p)

SpecWorker == Init /\ [][NextWorker]_vars

----------------------------------------------------------------------------
(* A Client with a request timeout against a broker that answers every     *)
(* request, in order, with interpreter frames and one terminator           *)

\* A message of the broker to the client ([b"", msg_type, msg_body]); id is
\* the request it answers.
Msg(tag, id) == [tag |-> tag, id |-> id]

\* What the broker sends for request id.
Replies(id) ==
    {[i \in 1 .. n |-> Msg("interpreter", id)] \o <<Msg(last, id)>> :
        n \in StreamCounts, last \in {"request_done", "request_exception"}}

\* The steps of this specification change dealer only.
OnlyClient ==
    UNCHANGED <<cfg, sw, limits, server, stop_event, child, emitted, clients, procs, queue, pc,
                req, frames, denv, held, received, lastRecv, call>>

\* _send_request: self._socket.send_multipart(...), up to the poll
send_request ==
    /\ dealer.state = "idle"
    /\ dealer.sent < MaxSent
    /\ \E left \in Replies(dealer.sent + 1) :
          dealer' = [dealer EXCEPT !.sent = @ + 1, !.state = "polling", !.got = <<>>,
                                   !.outcome = "",
                                   !.pending = Append(@, [id |-> dealer.sent + 1,
                                                          left |-> left])]
    /\ OnlyClient

\* The broker's callback sends the next frame of the oldest request it has
\* not fully answered.
send_cb ==
    /\ dealer.pending # <<>>
    /\ LET h == Head(dealer.pending)
       IN  dealer' = [dealer EXCEPT
                         !.inbox = Append(@, Head(h.left)),
                         !.pending = IF Len(h.left) = 1 THEN Tail(@)
                                     ELSE <<[h EXCEPT !.left = Tail(@)]>> \o Tail(@)]
    /\ OnlyClient

\* _send_request: poller.poll(self.__timeout) returned nothing: TimeoutError
poll_timeout ==
    /\ dealer.state = "polling"
    /\ dealer.inbox = <<>>
    /\ dealer' = [dealer EXCEPT !.state = "idle", !.outcome = "timeout"]
    /\ OnlyClient

\* _send_request: the poll returned, or the loop is at recv_multipart again:
\* the next message is taken; request_done returns, request_exception
\* raises, anything else is yielded.
recv_multipart ==
    /\ dealer.state \in {"polling", "receiving"}
    /\ dealer.inbox # <<>>
    /\ LET f == Head(dealer.inbox)
       IN  dealer' = [dealer EXCEPT
                         !.inbox = Tail(@),
                         !.got = Append(@, f),
                         !.state = IF f.tag = "interpreter" THEN "receiving" ELSE "idle",
                         !.outcome = IF f.tag = "interpreter" THEN ""
                                     ELSE IF f.tag = "request_done" THEN "returned"
                                     ELSE "raised"]
    /\ OnlyClient

NextClient ==
    \/ send_request
    \/ send_cb
    \/ poll_timeout
    \/ recv_multipart

SpecClient == Init /\ [][NextClient]_vars

----------------------------------------------------------------------------
(* The registry alone: ClientManager's methods called directly, in any    *)
(* order, for any client and environment (as the registry's tests do).    *)
(* call records the last call and its outcome.                            *)

\* The stop() calls a method made.
Stops(pr, r) ==
    Cardinality({p \in Pids : pr[p].status = "alive" /\ r.procs[p].status = "stopped"})

Called(op, cid, raw, r) ==
    /\ clients' = r.clients
    /\ procs' = Collect(r.procs, r.clients, held)
    /\ call' = [op |-> op, client |-> cid, env |-> raw, exc |-> r.exc, ret |-> r.ret,
                stops |-> Stops(procs, r)]
    /\ UNCHANGED <<cfg, dealer, sw, limits, server, stop_event, child, emitted, queue, pc, req, frames, denv, held, received, lastRecv>>

CallRegister(cid, raw) ==
    Called("register", cid, raw, register(clients, procs, cid, raw))

CallSwitch(cid, raw) ==
    Called("switch_interpreter", cid, raw, switch_interpreter(clients, procs, cid, raw))

CallDelete(cid, raw) ==
    Called("delete_interpreter", cid, raw, delete_interpreter(clients, procs, cid, raw))

CallRemove(cid) ==
    Called("remove", cid, "", remove(clients, procs, cid))

NextRegistry ==
    \E cid \in ClientIds :
        \/ \E raw \in RawEnvs :
              \/ CallRegister(cid, raw)
              \/ CallSwitch(cid, raw)
              \/ CallDelete(cid, raw)
        \/ CallRemove(cid)

SpecRegistry == Init /\ [][NextRegistry]_vars

----------------------------------------------------------------------------
(* Properties *)

IsTerminator(f) == f.tag \in {"request_done", "request_exception"}

\* interpreter frames, then exactly one terminator
Terminated(fs) ==
    /\ Len(fs) >= 1
    /\ IsTerminator(fs[Len(fs)])
    /\ \A i \in 1 .. Len(fs) - 1 : fs[i].tag = "interpreter"

\* C1: once a dispatcher thread is done with an item it dequeued, the frames
\* it sent for it are interpreter frames followed by exactly one terminator
\* (request_done or request_exception).
C1_OneTerminator ==
    \A t \in Threads : pc[t] = "done" => Terminated(frames[t])

\* C2: every registered client holds at most interpreters_per_client
\* interpreter processes, after any sequence of registry calls.
C2_PerClientCap ==
    \A c \in Registered : Len(clients[c].interpreters) <= interpreters_per_client

\* A client at its cap of two was just refused a third interpreter.
C2_Witness ==
    /\ interpreters_per_client = 2
    /\ call.op = "switch_interpreter"
    /\ call.exc = ProcessLimitExc
    /\ call.client \in Registered
    /\ Len(clients[call.client].interpreters) = 2

C4_CurrentIsKey ==
    \A c \in Registered :
        clients[c].current.environment \in Keys(clients[c].interpreters)

\* C5: every registered client's interpreters map has a worker for its
\* default environment.
C5_DefaultHasWorker ==
    \A c \in Registered :
        clients[c].default_environment \in Keys(clients[c].interpreters)

\* No dispatcher thread is in the middle of an item.
AtRest == \A t \in Threads : pc[t] \in {"idle", "done"}

\* C4 and C5 between requests only: the follow-up switch to the default
\* environment has run for every delete.
CurrentAndDefaultAreKeysAtRest ==
    AtRest => (C4_CurrentIsKey /\ C5_DefaultHasWorker)

ClientLimitFrame == Frame("request_exception", TextBody(ClientLimitExc))

\* C6: when a dispatcher thread registers an unknown client while max_clients
\* clients are registered, the registry and the interpreter processes are
\* left as they are and the item is answered with the single frame
\* request_exception "Client limit exceeded. Try again later.".
C6_ClientLimit ==
    [][\A t \in Threads :
          (/\ pc[t] = "register"
           /\ pc'[t] # "register"
           /\ req[t].client \notin Registered
           /\ Cardinality(Registered) = max_clients)
          => (/\ clients' = clients
              /\ procs' = procs
              /\ pc'[t] = "done"
              /\ frames'[t] = <<ClientLimitFrame>>)]_vars

\* A client was refused while another one is registered.
C6_Witness ==
    \E t \in Threads :
        /\ pc[t] = "done"
        /\ frames[t] = <<ClientLimitFrame>>
        /\ req[t].client \notin Registered
        /\ Registered # {}
        /\ Cardinality(Registered) = max_clients

\* The call recorded in call' is switch_interpreter for a valid environment
\* the client has no worker for.
SwitchToNew ==
    /\ call'.op = "switch_interpreter"
    /\ call'.client \in Registered
    /\ validate_environment(call'.env).exc = NoExc
    /\ validate_environment(call'.env).env \notin Keys(clients[call'.client].interpreters)

\* C7: switch_interpreter to a valid environment the client has no worker
\* for, with the client at interpreters_per_client workers or the broker at
\* max_interpreters, raises "Unable to create new interpreter due to process
\* limit." and changes neither the registry nor the interpreter processes.
C7_ProcessLimit ==
    [][(/\ SwitchToNew
        /\ \/ Len(clients[call'.client].interpreters) >= interpreters_per_client
           \/ total_active_processes(clients) >= max_interpreters)
       => (/\ call'.exc = ProcessLimitExc
           /\ clients' = clients
           /\ procs' = procs)]_vars

\* A switch was refused for a client whose current environment is not the
\* one it registered with.
C7_Witness ==
    /\ call.op = "switch_interpreter"
    /\ call.exc = ProcessLimitExc
    /\ call.client \in Registered
    /\ clients[call.client].current.environment
         # clients[call.client].default_environment

\* C8: register for a client that is already registered returns without an
\* error, whatever the environment, and changes neither the registry nor
\* the interpreter processes.
C8_RegisterTwice ==
    [][(call'.op = "register" /\ call'.client \in Registered)
       => (/\ call'.exc = NoExc
           /\ clients' = clients
           /\ procs' = procs)]_vars

\* register returned for a registered client and an invalid environment.
C8_Witness ==
    /\ call.op = "register"
    /\ call.client \in Registered
    /\ call.exc = NoExc
    /\ validate_environment(call.env).exc # NoExc

\* C9: delete_interpreter for an unknown client, or for a valid environment
\* the client has no worker for, returns without an error, stops no worker
\* and changes neither the registry nor the interpreter processes.
C9_DeleteMissing ==
    [][(/\ call'.op = "delete_interpreter"
        /\ \/ call'.client \notin Registered
           \/ /\ validate_environment(call'.env).exc = NoExc
              /\ validate_environment(call'.env).env
                   \notin Keys(clients[call'.client].interpreters))
       => (/\ call'.exc = NoExc
           /\ call'.stops = 0
           /\ clients' = clients
           /\ procs' = procs)]_vars

\* delete_interpreter returned for a registered client, a valid environment
\* and no worker to stop.
C9_Witness ==
    /\ call.op = "delete_interpreter"
    /\ call.client \in Registered
    /\ validate_environment(call.env).exc = NoExc
    /\ call.exc = NoExc
    /\ call.stops = 0

QueueFullFrame == Frame("request_exception", TextBody(QueueFullExc))

\* The step is a receive iteration of the front-end.
Received == received' = received + 1

InvalidFramesFrame == Frame("request_exception", TextBody(InvalidFramesExc))

\* C11: a receive iteration that gets a message whose frame count is not 3
\* sends the one frame request_exception "Invalid number of frames received",
\* leaves the queue as it is and leaves the front-end in its receive loop.
C11_InvalidFramesContinue ==
    [][(received' = received + 1 /\ lastRecv'.sent = <<InvalidFramesFrame>>)
       => (/\ queue' = queue
           /\ ~lastRecv'.enqueued
           /\ server' = "listening")]_vars

\* C19: cleanup() starts only when every dispatcher thread has left its loop
\* (the stop event set and the threads joined before it).
C19_CleanupAfterJoin ==
    [][(server = "finally" /\ server' = "clearing")
       => (stop_event /\ \A t \in Workers : pc[t] = "exited")]_vars

\* The responses a dispatcher thread has forwarded for its item.
Forwarded(t) ==
    LET fs == SelectSeq(frames[t], LAMBDA f : f.tag = "interpreter")
    IN  [i \in 1 .. Len(fs) |-> fs[i].body.out]

\* The drain loop of thread t ends on the _completed sentinel.
DrainCompletes(t) ==
    /\ pc[t] = "drain"
    /\ pc'[t] = "done"
    /\ procs[held[t]].status # "stopped"

\* C12: when the drain loop of a streaming request ends on _completed, the
\* interpreter frames sent for the request are the responses the worker
\* process put on its output pipe for that request, in that order, none
\* dropped and none duplicated.
C12_FramesInWorkerOrder ==
    [][\A t \in Threads : DrainCompletes(t) => Forwarded(t) = emitted[t]]_vars

\* Thread t sends a frame for the item it holds.
Sends(t) == req'[t] = req[t] /\ frames'[t] # frames[t]

\* C13: when a frame is sent for a request R1, no frame has been sent yet for
\* a request R2 of the same client that was enqueued after R1.
C13_NoOvertaking ==
    [][\A t1, t2 \in Threads :
          (/\ Sends(t1)
           /\ req[t2].client = req[t1].client
           /\ req[t1].id < req[t2].id)
          => frames[t2] = <<>>]_vars

IsFinal(o) == o.type \in {"Result", "ExceptionInfo"}

\* The Result and ExceptionInfo responses among the frames forwarded by t.
Finals(t) == {i \in 1 .. Len(Forwarded(t)) : IsFinal(Forwarded(t)[i])}

\* C14: when the drain loop of a RunCode request ends on _completed, exactly
\* one of the interpreter frames sent for the request carries a Result or an
\* ExceptionInfo.
C14_OneResultOrException ==
    [][\A t \in Threads :
          (DrainCompletes(t) /\ req[t].kind = "RunCode")
          => Cardinality(Finals(t)) = 1]_vars

\* What the worker process itself emits for a RunCode request holds exactly
\* one Result or ExceptionInfo, as its last response.
WorkerEmitsOneFinal ==
    \A t \in Threads :
        (req[t].kind = "RunCode" /\ emitted[t] # <<>>)
        => /\ IsFinal(emitted[t][Len(emitted[t])])
           /\ \A i \in 1 .. Len(emitted[t]) - 1 : ~IsFinal(emitted[t][i])

DoneFrame == Frame("request_done", EmptyBody)

\* C15: a streaming request (SetEnvironmentVariables, RunCommand,
\* InstallRequirements, RunCode) that was not answered with an exception is
\* answered with interpreter frames followed by request_done with an empty
\* body.
C15_StreamingDone ==
    \A t \in Threads :
        (/\ pc[t] = "done"
         /\ req[t].kind \in StreamingKinds
         /\ \A i \in 1 .. Len(frames[t]) : frames[t][i].tag # "request_exception")
        => (/\ frames[t] # <<>>
            /\ frames[t][Len(frames[t])] = DoneFrame
            /\ \A i \in 1 .. Len(frames[t]) - 1 : frames[t][i].tag = "interpreter")

\* The body a GetEnvironment request of the given type is to be answered with.
EnvironmentBody(info, type) ==
    CASE type = "current" -> EnvBody(info.current.environment)
      [] type = "default" -> EnvBody(info.default_environment)
      [] OTHER            -> ListBody(KeyList(info.interpreters))

\* C16: a GetEnvironment request of a registered client is answered with the
\* one frame request_done whose body is the client's current environment,
\* its default environment, or the list of its environments in the order
\* their workers were created, by the request's type.
C16_GetEnvironmentBody ==
    [][\A t \in Threads :
          (/\ pc[t] = "dispatch"
           /\ pc'[t] = "done"
           /\ req[t].kind = "GetEnvrionment"
           /\ req[t].client \in Registered)
          => frames'[t] =
               <<Frame("request_done",
                       EnvironmentBody(clients[req[t].client], req[t].arg))>>]_vars

\* Thread t's call of delete_interpreter for a ModifyInterpreter{env, delete}
\* request returns without an exception.
DeleteReturns(t) ==
    /\ pc[t] = "dispatch"
    /\ pc'[t] = "getinfo"
    /\ req[t].kind = "ModifyInterpreter"
    /\ req[t].mode = "delete"

\* Thread t answers a ModifyInterpreter{env, delete} request with request_done.
DeleteAnswered(t) ==
    /\ pc[t] = "switch"
    /\ pc'[t] = "done"
    /\ frames'[t] # <<>>
    /\ frames'[t][Len(frames'[t])].tag = "request_done"

\* C17: a ModifyInterpreter{env, delete} request answered with request_done:
\* when delete_interpreter returned, the worker the client held for env (if
\* any) was stopped and was no longer in the client's interpreters map; the
\* one frame sent is request_done with the client's default environment,
\* and the client's current environment is its default environment.
C17_DeleteReply ==
    /\ [][\A t \in Threads :
             (/\ DeleteReturns(t)
              /\ req[t].client \in Registered
              /\ validate_environment(req[t].arg).env
                   \in Keys(clients[req[t].client].interpreters))
             => LET c == req[t].client
                    e == validate_environment(req[t].arg).env
                    h == Lookup(clients[c].interpreters, e)
                IN  /\ procs'[h].status # "alive"
                    /\ c \in DOMAIN clients'
                    /\ h \notin Handles(clients'[c].interpreters)
                    /\ e \notin Keys(clients'[c].interpreters)]_vars
    /\ [][\A t \in Threads :
             DeleteAnswered(t)
             => LET c == req[t].client
                IN  /\ c \in DOMAIN clients'
                    /\ frames'[t] =
                         <<Frame("request_done", EnvBody(clients'[c].default_environment))>>
                    /\ clients'[c].current.environment
                         = clients'[c].default_environment]_vars

\* Thread t registers a client the registry did not know.
FirstContact(t) ==
    /\ pc[t] = "register"
    /\ pc'[t] = "dispatch"
    /\ req[t].client \notin Registered
    /\ req[t].client \in DOMAIN clients'

C20_StopLeavesNoChild ==
    \A p \in Pids :
        LET c == child[p]
        IN  /\ c.stop # "none" => c.event
            /\ c.term => c.event
            /\ c.kill => (c.term /\ c.stop \in {"killed", "returned"})
            /\ c.pipes = "closed" => (~IsAlive(c) /\ c.stop = "returned")
            /\ c.stop = "returned" => (~IsAlive(c) /\ c.pipes = "closed")
            /\ c.stop # "raised"

\* stop() has returned for a child that survived the request to terminate,
\* for one that died of it and for one that had exited by itself.
C20_Witness ==
    \E p, q, r \in Pids :
        /\ child[p].stop = "returned" /\ child[p].kill
        /\ child[q].stop = "returned" /\ child[q].term /\ ~child[q].kill
        /\ child[r].stop = "returned" /\ ~child[r].term /\ child[r].state = "exited"

\* Thread t's Disconnect request finds its client registered.
Disconnects(t) ==
    /\ pc[t] = "dispatch"
    /\ pc'[t] = "done"
    /\ req[t].kind = "Disconnect"
    /\ req[t].client \in Registered

\* C21: a Disconnect request of a registered client removes the client from
\* the registry, leaves none of the workers it held alive, lowers the total
\* worker count by the number of workers it held and is answered with the
\* one frame request_done with an empty body; a later request with the same
\* identity registers a new record with one newly started worker.
C21_RemoveStopsAll ==
    /\ [][\A t \in Threads :
             Disconnects(t)
             => LET c == req[t].client
                IN  /\ c \notin DOMAIN clients'
                    /\ \A h \in Handles(clients[c].interpreters) :
                          procs'[h].status # "alive"
                    /\ total_active_processes(clients')
                         = total_active_processes(clients) - Len(clients[c].interpreters)
                    /\ frames'[t] = <<DoneFrame>>]_vars
    /\ [][\A t \in Threads :
             FirstContact(t)
             => LET info == clients'[req[t].client]
                    h    == info.current.interpreter
                IN  /\ Len(info.interpreters) = 1
                    /\ Handles(info.interpreters) = {h}
                    /\ procs[h].status # "alive"
                    /\ procs'[h].status = "alive"
                    /\ procs'[h].inq = <<>> /\ procs'[h].outq = <<>>]_vars

\* A client registered by an earlier request was removed by its Disconnect
\* request and none of its workers is alive.
C21_Witness ==
    \E t1, t2 \in Threads :
        /\ req[t1].client \notin Registered
        /\ req[t2].client = req[t1].client
        /\ pc[t1] = "done"
        /\ req[t1].kind = "ModifyInterpreter"
        /\ frames[t1] = <<Frame("request_done", EnvBody("/env1"))>>
        /\ req[t1].id < req[t2].id
        /\ pc[t2] = "done"
        /\ req[t2].kind = "Disconnect"
        /\ frames[t2] = <<DoneFrame>>
        /\ \A p \in Pids : procs[p].status # "alive"

\* C22: every exit of a switch_to context, normal or by an exception, leaves
\* on the parent the callable that was installed just before the matching
\* enter, which is also the Switchable's current target; with no context
\* open the original callable is installed; and original is the original
\* callable at every nesting depth.
C22_SwitchableRestores ==
    /\ [](original(sw) = "orig")
    /\ [](sw.target_stack = <<>> => (sw.installed = "orig" /\ sw.current_target = "orig"))
    /\ [](sw.installed = sw.current_target)
    /\ [][Len(sw'.target_stack) < Len(sw.target_stack)
          => (/\ sw'.installed = sw.before[Len(sw.before)]
              /\ sw'.current_target = sw'.installed
              /\ Len(sw'.target_stack) = Len(sw.target_stack) - 1)]_vars

\* Three contexts were open, the innermost not on the original, and the
\* innermost one was left by an exception.
C22_Witness ==
    /\ sw.last = "raise"
    /\ Len(sw.target_stack) = 2
    /\ sw.target_stack = <<"orig", "f">>
    /\ sw.installed = "g"

\* C23: for every CPU count and every configured pair: max_interpreters is
\* the configured value clamped to the CPU count (the CPU count when none
\* is configured), interpreters_per_client is the configured value or
\* min(2, max_interpreters), max_clients is the whole number of clients that
\* fit (max_clients * interpreters_per_client <= max_interpreters, and one
\* client more would not fit), the derived dispatcher count is
\* min(2 * max_clients, cpu_count) and the derived queue size is
\* max_clients * interpreters_per_client * 2.
C23_DerivedLimits ==
    limits.constructed =>
        LET given(x) == x # None /\ x # 0
            mi == limits.max_interpreters
            pc_ == limits.interpreters_per_client
            mc == limits.max_clients
        IN  /\ mi <= limits.cpu_count
            /\ mi >= 1
            /\ given(cfg.max_interpreters) /\ cfg.max_interpreters <= limits.cpu_count
                 => mi = cfg.max_interpreters
            /\ ~given(cfg.max_interpreters) \/ cfg.max_interpreters > limits.cpu_count
                 => mi = limits.cpu_count
            /\ given(cfg.interpreters_per_client) => pc_ = cfg.interpreters_per_client
            /\ ~given(cfg.interpreters_per_client) => pc_ = Min(2, mi)
            /\ mc >= 0
            /\ mc * pc_ <= mi
            /\ (mc + 1) * pc_ > mi
            /\ limits.num_worker_threads = Min(2 * mc, limits.cpu_count)
            /\ limits.max_queue_size = mc * pc_ * 2

\* A host with fewer CPUs than the configured max_interpreters, and a
\* configured interpreters_per_client that does not divide the clamped value.
C23_Witness ==
    /\ limits.constructed
    /\ cfg.max_interpreters # None
    /\ cfg.max_interpreters > limits.cpu_count
    /\ limits.interpreters_per_client = 2
    /\ limits.max_interpreters = 3
    /\ limits.max_clients = 1

\* An exception escapes thread t's dispatch of a streaming request: the
\* put on the input pipe or the get on the output pipe of a stopped worker
\* raises.
DispatchRaises(t) ==
    /\ pc'[t] # pc[t]
    /\ \/ /\ pc[t] = "drain"
          /\ procs[held[t]].status = "stopped"
       \/ /\ pc[t] = "dispatch"
          /\ req[t].kind \in {"InstallRequirements", "RunCode"}
          /\ req[t].client \in Registered
          /\ procs[clients[req[t].client].current.interpreter].status = "stopped"

\* C24: when an exception escapes the dispatch of a request, the dispatcher
\* thread sends request_exception as the request's last frame and is back at
\* the top of its loop.
C24_EscapingException ==
    [][\A t \in Threads :
          DispatchRaises(t)
          => (/\ pc'[t] = "done"
              /\ frames'[t] # <<>>
              /\ frames'[t][Len(frames'[t])].tag = "request_exception")]_vars

\* Thread t polls the empty output pipe of a worker whose child has died.
DrainsDead(t) ==
    /\ pc[t] = "drain"
    /\ procs[held[t]].status = "dead"
    /\ procs[held[t]].outq = <<>>

\* C25: a dispatcher thread whose worker died before _completed can end its
\* drain loop: it is not left polling the dead worker's output pipe.
C25_DeadWorkerEndsDrain ==
    \A t \in Threads : DrainsDead(t) => ENABLED Drain(t)

\* The child of worker p reads a request from its input pipe and handles it
\* without dying.
WorkerReads(p) ==
    /\ procs[p].status = "alive"
    /\ procs'[p].status = "alive"
    /\ Len(procs'[p].inq) < Len(procs[p].inq)

\* What the step adds to the output pipe of worker p, when nothing is taken
\* from the pipe in the same step.
Put(p) ==
    SubSeq(procs'[p].outq, Len(procs[p].outq) + 1, Len(procs'[p].outq))

\* C26: for every request the child reads from its input pipe, whatever its
\* keyword, it puts exactly one _completed sentinel on the output pipe,
\* after all responses of that request.
C26_OneCompleted ==
    [][\A p \in Pids :
          WorkerReads(p)
          => LET outs == Put(p)
                 id   == Head(procs[p].inq).id
             IN  /\ outs # <<>>
                 /\ outs[Len(outs)] = Completed(id)
                 /\ \A i \in 1 .. Len(outs) - 1 : outs[i].type # "_completed"]_vars

\* Thread t completes a call of a registry operation (register, get_info,
\* switch_interpreter, delete_interpreter, remove).
RegistryOp(t) ==
    /\ pc'[t] # pc[t]
    /\ \/ pc[t] \in {"register", "getinfo", "switch"}
       \/ pc[t] = "dispatch" /\ req[t].kind \notin {"SetEnvironmentVariables", "RunCommand"}

\* C27: no registry operation of a dispatcher thread runs while cleanup() is
\* between its first and its last statement.
C27_CleanupExclusive ==
    [][server = "clearing" => \A t \in Threads : ~RegistryOp(t)]_vars

\* C28: what the child puts on the output pipe for a code request it
\* handles is its Stream responses, then the one Result or ExceptionInfo,
\* then _completed.
C28_StreamsBeforeFinal ==
    [][\A p \in Pids :
          (WorkerReads(p) /\ Head(procs[p].inq).shape = "code")
          => LET outs == Put(p)
                 n    == Len(outs)
             IN  /\ n >= 2
                 /\ outs[n].type = "_completed"
                 /\ IsFinal(outs[n - 1])
                 /\ \A i \in 1 .. n - 2 : outs[i].type = "Stream"]_vars

\* The child has put a Stream and then a Result for a code request.
C28_Witness ==
    \E t \in Threads :
        /\ req[t].kind = "code"
        /\ Len(emitted[t]) = 2
        /\ emitted[t][1].type = "Stream"
        /\ emitted[t][2].type = "Result"

\* The call recorded in call' is switch_interpreter to a valid environment
\* the client has a worker for.
SwitchToExisting ==
    /\ call'.op = "switch_interpreter"
    /\ call'.client \in Registered
    /\ validate_environment(call'.env).exc = NoExc
    /\ validate_environment(call'.env).env \in Keys(clients[call'.client].interpreters)

\* C29: switch_interpreter to an environment the client has a worker for
\* returns the validated environment, starts and stops no process, leaves
\* every interpreters map as it is and makes that worker the client's
\* current one, whatever the worker counts; and no client has two workers
\* for one environment.
C29_SwitchToExisting ==
    /\ [][SwitchToExisting
          => LET c == call'.client
                 e == validate_environment(call'.env).env
             IN  /\ call'.exc = NoExc
                 /\ call'.ret = e
                 /\ call'.stops = 0
                 /\ \A p \in Pids : procs'[p].status = "alive" <=> procs[p].status = "alive"
                 /\ DOMAIN clients' = DOMAIN clients
                 /\ \A d \in Registered : clients'[d].interpreters = clients[d].interpreters
                 /\ clients'[c].current =
                      [environment |-> e,
                       interpreter |-> Lookup(clients[c].interpreters, e)]]_vars
    /\ [](\A c \in Registered :
             Cardinality(Keys(clients[c].interpreters)) = Len(clients[c].interpreters))

\* A client at its cap, with the broker at its cap, has switched back to the
\* environment it registered with.
C29_Witness ==
    /\ call.op = "switch_interpreter"
    /\ call.exc = NoExc
    /\ call.client \in Registered
    /\ Len(clients[call.client].interpreters) = interpreters_per_client
    /\ total_active_processes(clients) = max_interpreters
    /\ interpreters_per_client = 2
    /\ clients[call.client].current.environment = call.ret
    /\ clients[call.client].current = clients[call.client].interpreters[1]

\* C30: no two dispatcher threads are in the send-input/drain loop of the
\* same worker process at the same time.
C30_OneDrainPerWorker ==
    \A t1, t2 \in Threads :
        (t1 # t2 /\ pc[t1] = "drain" /\ pc[t2] = "drain") => held[t1] # held[t2]

\* The environment of a request is neither the sentinel nor a directory
\* with lib/site-packages.
Invalid(raw) == raw # "$system" /\ Resolve(raw) \notin EnvDirs

LookupFrame(raw) == Frame("request_exception", TextBody(LookupExc(Resolve(raw))))

\* Thread t calls register for an unknown client, below the client limit,
\* with an invalid environment.
RegistersInvalid(t) ==
    /\ pc[t] = "register"
    /\ pc'[t] # "register"
    /\ req[t].kind = "ModifyInterpreter"
    /\ Invalid(req[t].arg)
    /\ req[t].client \notin Registered
    /\ CanAcceptClient(clients)

\* Thread t calls switch_interpreter for a registered client with an
\* invalid environment.
SwitchesInvalid(t) ==
    /\ pc[t] = "dispatch"
    /\ pc'[t] # "dispatch"
    /\ req[t].kind = "ModifyInterpreter"
    /\ req[t].mode = "switch"
    /\ Invalid(req[t].arg)
    /\ req[t].client \in Registered

C31_SwitchRefused ==
    \E t \in Threads :
        /\ pc[t] = "done"
        /\ req[t].kind = "ModifyInterpreter"
        /\ req[t].mode = "switch"
        /\ Invalid(req[t].arg)
        /\ frames[t] = <<LookupFrame(req[t].arg)>>
        /\ req[t].client \in Registered

\* C32: every registered client's current.interpreter is the handle its
\* interpreters map has for current.environment, and that process has not
\* been stopped.
C32_CurrentIsLive ==
    \A c \in Registered :
        LET cur == clients[c].current
        IN  /\ cur.environment \in Keys(clients[c].interpreters)
            /\ Lookup(clients[c].interpreters, cur.environment) = cur.interpreter
            /\ procs[cur.interpreter].status # "stopped"

\* ... between requests only, and with no request left in the queue.
CurrentIsLiveAtRest == (AtRest /\ queue = <<>>) => C32_CurrentIsLive

\* Thread t is in the drain loop of a worker that has been stopped.
StoppedUnderDrain(t) ==
    /\ pc[t] = "drain"
    /\ procs[held[t]].status = "stopped"

\* C33: when the worker a dispatcher thread is draining has been stopped,
\* the thread's next read of the output pipe is possible and ends the drain
\* loop: the thread is back at the top of its loop, holding no worker, with
\* no frame sent; until then the stopped process object stays as it is.
C33_StoppedWorkerEndsDrain ==
    /\ [](\A t \in Threads : StoppedUnderDrain(t) => ENABLED Drain(t))
    /\ [][\A t \in Threads :
             StoppedUnderDrain(t)
             => \/ /\ pc'[t] = "drain"
                   /\ held'[t] = held[t]
                   /\ procs'[held[t]] = procs[held[t]]
                \/ /\ pc'[t] = "done"
                   /\ held'[t] = 0
                   /\ frames'[t] = frames[t]]_vars

\* A worker was stopped by cleanup() while a dispatcher thread was in its
\* drain loop.
C33_Witness ==
    \E t \in Threads :
        /\ StoppedUnderDrain(t)
        /\ req[t].kind = "RunCode"
        /\ server = "clearing"

\* ... by the delete or the Disconnect request of another thread.
C33_StoppedByRequest ==
    \E t, u \in Threads :
        /\ StoppedUnderDrain(t)
        /\ pc[u] = "done"
        /\ req[u].kind \in {"ModifyInterpreter", "Disconnect"}
        /\ server = "listening"

\* C35: once the receive loop of Server.run has been left, the stop event is
\* set, so every dispatcher thread leaves its loop and the joins of the
\* finally block can return.
C35_ShutdownStopsThreads ==
    server \in {"finally", "clearing", "joining"} => stop_event

\* C36: when Server.run has finished its shutdown, no worker process is
\* alive.
C36_NoWorkerAfterShutdown ==
    server = "closed" => \A p \in Pids : procs[p].status # "alive"

\* Thread t's step calls stop() on a process that was stopped before: remove
\* for a client whose interpreters map holds such a process, or
\* delete_interpreter for an environment whose worker is one.
StopsAgain(t) ==
    /\ pc[t] = "dispatch"
    /\ pc'[t] # "dispatch"
    /\ req[t].client \in Registered
    /\ LET info == clients[req[t].client]
       IN  \/ /\ req[t].kind = "Disconnect"
              /\ \E h \in Handles(info.interpreters) : procs[h].status = "stopped"
           \/ /\ req[t].kind = "ModifyInterpreter"
              /\ req[t].mode = "delete"
              /\ validate_environment(req[t].arg).exc = NoExc
              /\ validate_environment(req[t].arg).env \in Keys(info.interpreters)
              /\ procs[Lookup(info.interpreters, validate_environment(req[t].arg).env)].status
                   = "stopped"

\* cleanup()'s loops call stop() on a process that was stopped before.
CleanupStopsAgain ==
    /\ server = "finally"
    /\ server' = "clearing"
    /\ \E c \in Registered :
          \E h \in Handles(clients[c].interpreters) : procs[h].status = "stopped"

\* C37: no step of delete_interpreter, remove or cleanup calls stop() on a
\* process object that was stopped before.
C37_StopOnce ==
    [][~CleanupStopsAgain /\ \A t \in Threads : ~StopsAgain(t)]_vars

\* C34: every message a Client has received for its k-th request was sent
\* by the broker for that k-th request.
C34_OwnFramesOnly ==
    \A i \in 1 .. Len(dealer.got) : dealer.got[i].id = dealer.sent

\* C38: a registered client that holds fewer than interpreters_per_client
\* workers always finds the total below max_interpreters, and
\* switch_interpreter raises the process-limit error only for a client that
\* is at its own cap.
C38_GlobalCapImplied ==
    /\ [](\A c \in Registered :
             Len(clients[c].interpreters) < interpreters_per_client
             => total_active_processes(clients) < max_interpreters)
    /\ [][(call'.op = "switch_interpreter" /\ call'.exc = ProcessLimitExc)
          => Len(clients[call'.client].interpreters) >= interpreters_per_client]_vars

\* A switch was refused for a client at its cap while another client holds
\* fewer workers than the cap.
C38_Witness ==
    /\ call.op = "switch_interpreter"
    /\ call.exc = ProcessLimitExc
    /\ call.client \in Registered
    /\ Len(clients[call.client].interpreters) = interpreters_per_client
    /\ \E d \in Registered :
          /\ d # call.client
          /\ Len(clients[d].interpreters) < interpreters_per_client

\* C39: a call of register, switch_interpreter, delete_interpreter or
\* remove for one client leaves every other client registered, with its
\* record and the worker processes it refers to as they were.
C39_OtherClientsUntouched ==
    [][\A d \in Registered \ {call'.client} :
          /\ d \in DOMAIN clients'
          /\ clients'[d] = clients[d]
          /\ \A h \in Handles(clients[d].interpreters) \cup {clients[d].current.interpreter} :
                procs'[h] = procs[h]]_vars

\* A client was removed and its worker stopped while the other client is
\* registered with a running worker.
C39_Witness ==
    /\ call.op = "remove"
    /\ call.stops >= 1
    /\ call.client \notin Registered
    /\ \E d \in Registered :
          /\ clients[d].interpreters # <<>>
          /\ \A h \in Handles(clients[d].interpreters) : procs[h].status = "alive"

\* interpreters_per_client exceeds max_interpreters, and the thread count
\* and the queue size are left to be derived.
ZeroClientsDerived ==
    /\ max_clients = 0
    /\ cfg.num_worker_threads = None
    /\ cfg.max_queue_size = None

\* C40: in a broker constructed with interpreters_per_client above
\* max_interpreters and derived thread count and queue size, the queue never
\* holds more than max_queue_size requests, and some dispatcher thread can
\* take a queued request (to answer it) whenever no thread is busy.
C40_ZeroClientsAnswered ==
    ZeroClientsDerived
    => /\ Len(queue) <= max_queue_size
       /\ (queue # <<>> /\ AtRest) => \E t \in Threads : ENABLED Dequeue(t)

====
